---- MODULE Spec2Model ----
(***************************************************************************)
(* Model of the AM32 configuration driver (am32_config.py): the four-way   *)
(* frame encoder and decoder, CRC16/XMODEM, the retrying exchange          *)
(* send_four_way_command over a serial transport, the MSP parser and       *)
(* decoder with the session state fc_response, and the EEPROM record.      *)
(*                                                                         *)
(* Bytes are integers 0..255 and byte buffers are sequences; a Python      *)
(* index i (0-based) is position i + 1 of the sequence.                    *)
(***************************************************************************)
EXTENDS Integers, Sequences, FiniteSets, TLC

VARIABLES
    \* send_four_way_command: one call on a session and its transport
    pc,               \* "idle" | "loop" | "done"
    command,          \* argument command
    address,          \* argument address
    params,           \* argument params (a list the callee mutates)
    passed,           \* the list as the caller passed it, before any mutation
    retries,          \* argument retries
    attempt,          \* loop variable of `for attempt in range(retries)`
    written,          \* frames given to ser.write during the call, in order
    reads,            \* buffers returned by ser.read during the call, in order
    stdout,           \* lines printed during the call, in order
    result,           \* value returned by the call
    \* four-way codec applied to one buffer
    cdc_stage,        \* "off" | "args" | "request" | "response" | "mangled"
    cdc_args,         \* [command, address, params, ack] the buffer is built from
    cdc_buf,          \* the buffer
    cdc_out,          \* process_four_way_response(cdc_buf), Pending before the call
    \* crc16_xmodem applied to one buffer
    crc_data,         \* argument data
    crc_pos,          \* bytes of data the loop has consumed
    crc_reg,          \* local crc, an unbounded integer
    crc_out,          \* value returned, -1 before the return
    \* process_response applied to one buffer
    msp_frame,        \* [direction, command, payload] the buffer is built from
    msp_stage,        \* "off" | "frame" | "encoded" | "request" | "corrupted"
                      \* | "noisy" | "split"
    msp_buf,          \* the buffer of the first call
    msp_out,          \* what the first call returned, Pending before it
    msp_rest,         \* the buffer of the second call, when the frame was split
    msp_out2,         \* what the second call returned, Pending before it
    msp_locals,       \* the locals as the latest call left them
    \* the session state and the latest operation on it
    fc_response,      \* the dict self.fc_response
    fc_before,        \* fc_response before the latest operation
    ses_op,           \* "off" | "new" | "decode" | "reset"
    ses_arg,          \* the parsed_response passed to decode_response
    ses_ret,          \* what the latest operation returned or raised
    \* the EEPROM parsers applied to one block
    ee_stage,         \* "off" | "block"
    ee_block,         \* the raw bytes read from the EEPROM
    ee_dict,          \* what parse_eeprom_data(ee_block) gave, Pending before
    ee_key,           \* the key passed to parse_eeprom_params
    ee_param,         \* what parse_eeprom_params gave, Pending before
    \* read_eeprom_params_from_device
    rd_pc,            \* "off" | "start" | "loop" | "calling" | "done"
    esc_index,
    targets,
    eeprom_params,    \* the dict being filled, by index
    rd_log,           \* the exchanges started: index and outcome, in order
    rd_result,        \* what the call returned or raised, Pending before
    \* the transport as send_msp_command and send_four_way_command use it
    io_pc,            \* "off" | "idle" | "msp_written" | "fw_loop" | "fw_written"
    io_log,           \* the calls of ser.write and ser.read, in order
    io_attempt,
    io_retries,
    io_params         \* "empty" | "some" | "too_many": len(params)

vars == <<pc, command, address, params, passed, retries, attempt, written, reads,
          stdout, result,
          cdc_stage, cdc_args, cdc_buf, cdc_out,
          crc_data, crc_pos, crc_reg, crc_out,
          msp_frame, msp_stage, msp_buf, msp_out, msp_rest, msp_out2, msp_locals,
          fc_response, fc_before, ses_op, ses_arg, ses_ret,
          ee_stage, ee_block, ee_dict, ee_key, ee_param,
          rd_pc, esc_index, targets, eeprom_params, rd_log, rd_result,
          io_pc, io_log, io_attempt, io_retries, io_params>>

callVars == <<pc, command, address, params, passed, retries, attempt, written, reads,
              stdout, result>>
cdcVars  == <<cdc_stage, cdc_args, cdc_buf, cdc_out>>
crcVars  == <<crc_data, crc_pos, crc_reg, crc_out>>
mspVars  == <<msp_frame, msp_stage, msp_buf, msp_out, msp_rest, msp_out2,
              msp_locals>>

\* What an operation on one group of variables leaves alone.
sesVars  == <<fc_response, fc_before, ses_op, ses_arg, ses_ret>>
eeVars   == <<ee_stage, ee_block, ee_dict, ee_key, ee_param>>
ioVars   == <<io_pc, io_log, io_attempt, io_retries, io_params>>
rdVars   == <<rd_pc, esc_index, targets, eeprom_params, rd_log, rd_result>>
otherThanCall  == <<cdcVars, crcVars, mspVars, sesVars, eeVars, rdVars, ioVars>>
otherThanCodec == <<callVars, crcVars, mspVars, sesVars, eeVars, rdVars, ioVars>>
otherThanCrc   == <<callVars, cdcVars, mspVars, sesVars, eeVars, rdVars, ioVars>>
otherThanMsp   == <<callVars, cdcVars, crcVars, sesVars, eeVars, rdVars, ioVars>>
otherThanSes   == <<callVars, cdcVars, crcVars, mspVars, eeVars, rdVars, ioVars>>
otherThanEe    == <<callVars, cdcVars, crcVars, mspVars, sesVars, rdVars, ioVars>>
otherThanRd    == <<cdcVars, crcVars, mspVars, sesVars, eeVars, ioVars>>
otherThanIo    == <<callVars, cdcVars, crcVars, mspVars, sesVars, eeVars, rdVars>>

(* Bounds of the model *)

MaxRetries == 3        \* retries is drawn from 0..MaxRetries
SmallParams == 2       \* short parameter lists have 0..SmallParams entries
MaxCrcLen == 3         \* crc16_xmodem inputs over CrcBytes have 0..MaxCrcLen bytes
MaxPayload == 2
MaxNoise == 2
MaxName == 3
MaxMotors == 2
MaxEvents == 6        \* MSP payloads have 0..MaxPayload bytes

(* Python values *)

NoneValue == [type |-> "None"]

Min(a, b) == IF a < b THEN a ELSE b

\* data[lo:hi] of a bytes object: a slice is clipped to the buffer.
PySlice(data, lo, hi) ==
    IF Min(hi, Len(data)) <= lo THEN <<>> ELSE SubSeq(data, lo + 1, Min(hi, Len(data)))

\* data[i] is defined for 0 <= i < len(data) and raises IndexError otherwise.
InRange(data, i) == 0 <= i /\ i < Len(data)

RECURSIVE XorBits(_, _)
XorBits(a, b) ==
    IF a = 0 THEN b
    ELSE IF b = 0 THEN a
    ELSE ((a + b) % 2) + 2 * XorBits(a \div 2, b \div 2)

\* a ^ b on 4-bit operands, tabulated once.
XorNibble == [a \in 0..15 |-> [b \in 0..15 |-> XorBits(a, b)]]

\* a ^ b for operands in 0..65535.
BitXor(a, b) ==
      XorNibble[a % 16][b % 16]
    + 16 * XorNibble[(a \div 16) % 16][(b \div 16) % 16]
    + 256 * XorNibble[(a \div 256) % 16][(b \div 256) % 16]
    + 4096 * XorNibble[(a \div 4096) % 16][(b \div 4096) % 16]


(* Constants of the program *)

ACK_OK == 0                  \* FOUR_WAY_ACK['ACK_OK']
ACK_I_INVALID_CRC == 3       \* FOUR_WAY_ACK['ACK_I_INVALID_CRC']
ACK_D_GENERAL_ERROR == 15    \* FOUR_WAY_ACK['ACK_D_GENERAL_ERROR']
cmd_InterfaceTestAlive == 48 \* FOUR_WAY_COMMANDS['cmd_InterfaceTestAlive']
cmd_DeviceRead == 58         \* FOUR_WAY_COMMANDS['cmd_DeviceRead']
EEPROM_OFFSET == 63488       \* 0xF800
EEPROM_LENGTH == 184
FOUR_WAY_SENTINEL == 47      \* buffer_out[0] = 0x2F
CRC_POLY == 4129             \* poly = 0x1021
MAX_PARAMS == 256            \* len(params) > 256 is refused; count byte 0 means 256

(* crc16_xmodem *)

\* The Python integer crc is unbounded: the loop never masks it, so every
\* `crc << 1` keeps the bit it shifts out of the low 16.  An integer is held
\* as [hi, lo]: lo is the low 16 bits and hi the bits above them, most
\* significant first.
PyInt(hi, lo) == [hi |-> hi, lo |-> lo]

\* crc << 1
ShiftLeft1(crc) ==
    PyInt(Append(crc.hi, crc.lo \div 32768), (crc.lo * 2) % 65536)

\* crc ^ v for 0 <= v < 65536
XorLow(crc, v) == PyInt(crc.hi, BitXor(crc.lo, v))

\* crc & 0x8000
TopBitSet(crc) == (crc.lo \div 32768) % 2 = 1

\* crc_bit_step testing `crc & 0x4000`.
crc_bit_step_wrong_test(crc) ==
    IF (crc.lo \div 16384) % 2 = 1
    THEN XorLow(ShiftLeft1(crc), CRC_POLY)
    ELSE ShiftLeft1(crc)

\* One pass of `for _ in range(8)`.
crc_bit_step(crc) ==
    IF TopBitSet(crc)
    THEN XorLow(ShiftLeft1(crc), CRC_POLY)
    ELSE ShiftLeft1(crc)

\* `for _ in range(8)`: k passes remain.  The test on crc.lo makes the
\* register a value before the next pass.
RECURSIVE crc_bit_loop(_, _)
crc_bit_loop(crc, k) ==
    IF crc.lo < 0 \/ k = 0 THEN crc ELSE crc_bit_loop(crc_bit_step(crc), k - 1)

\* One pass of `for byte in data`.
crc_byte_step(crc, byte) == crc_bit_loop(XorLow(crc, byte * 256), 8)

\* `for byte in data` over positions a..b of data, in order.
RECURSIVE crc_byte_loop(_, _, _, _)
crc_byte_loop(data, a, b, crc) ==
    IF crc.lo < 0 \/ a > b THEN crc
    ELSE IF a = b THEN crc_byte_step(crc, data[a])
    ELSE LET m == (a + b) \div 2
         IN  crc_byte_loop(data, m + 1, b, crc_byte_loop(data, a, m, crc))

\* return crc & 0xFFFF
crc16_xmodem(data) == crc_byte_loop(data, 1, Len(data), PyInt(<<>>, 0)).lo

(* The four-way frame built by send_four_way_command *)

\* count_byte with the substitution made one entry early.
count_byte_off_by_one(n) == IF n < MAX_PARAMS - 1 THEN n ELSE 0

\* len(params) if len(params) < 256 else 0
count_byte(n) == IF n < MAX_PARAMS THEN n ELSE 0

\* frame_header with the address bytes in little-endian order.
frame_header_little_endian(cmd, addr, n) ==
    <<FOUR_WAY_SENTINEL, cmd, addr % 256, (addr \div 256) % 256, count_byte(n)>>

\* buffer_out[0..4]: sentinel, command, address high, address low, count.
frame_header(cmd, addr, n) ==
    <<FOUR_WAY_SENTINEL, cmd, (addr \div 256) % 256, addr % 256, count_byte(n)>>

\* buffer_out as written: bytearray(7 + len(params)) filled in, the CRC over
\* buffer_out[:-2] in the last two bytes, high byte first.
BuildFrame(cmd, addr, prm) ==
    LET body == frame_header(cmd, addr, Len(prm)) \o prm
        checksum == crc16_xmodem(body)
    IN  body \o <<(checksum \div 256) % 256, checksum % 256>>

(* process_four_way_response *)

\* param_count = data[4]; 0 stands for 256.
ParamCount(b) == IF b = 0 THEN MAX_PARAMS ELSE b

\* The second length test accepting a buffer one byte short.
TooShortFor_off_by_one(data, param_count) == Len(data) < 7 + param_count

\* len(data) < 8 + param_count
TooShortFor(data, param_count) == Len(data) < 8 + param_count

IndexError == [type |-> "IndexError"]

process_four_way_response(data) ==
    IF Len(data) < 9 THEN NoneValue
    ELSE LET param_count == ParamCount(data[5])
         IN  IF TooShortFor(data, param_count) THEN NoneValue
             ELSE IF \E i \in {1, 2, 3, 5 + param_count, 6 + param_count,
                               7 + param_count} : ~InRange(data, i)
                  THEN IndexError
             ELSE LET message ==
                          [type     |-> "frame",
                           command  |-> data[2],
                           address  |-> data[3] * 256 + data[4],
                           ack      |-> data[6 + param_count],
                           checksum |-> data[7 + param_count] * 256
                                          + data[8 + param_count],
                           params   |-> PySlice(data, 5, 5 + param_count)]
                      checksum == crc16_xmodem(PySlice(data, 0, 6 + param_count))
                  IN  IF checksum # message.checksum THEN NoneValue ELSE message

\* A response of the device as the decoder lays it out: sentinel, command,
\* address, count, the parameter bytes, the ack byte, and the CRC over all of
\* them.
ResponseFrame(cmd, addr, prm, ack) ==
    LET body == <<FOUR_WAY_SENTINEL, cmd, (addr \div 256) % 256, addr % 256,
                  Len(prm) % 256>> \o prm \o <<ack>>
        checksum == crc16_xmodem(body)
    IN  body \o <<(checksum \div 256) % 256, checksum % 256>>

\* Bytes laid out as a response with a CRC that matches them, but with 0 in
\* the place of the sentinel.
NoSentinelFrame(cmd, addr, prm, ack) ==
    LET body == <<0, cmd, (addr \div 256) % 256, addr % 256,
                  Len(prm) % 256>> \o prm \o <<ack>>
        checksum == crc16_xmodem(body)
    IN  body \o <<(checksum \div 256) % 256, checksum % 256>>

(* send_four_way_command *)

\* What the caller passes.
Commands == {cmd_DeviceRead, cmd_InterfaceTestAlive}
Addresses == {0, EEPROM_OFFSET}
ParamList(n) == [i \in 1..n |-> (EEPROM_LENGTH + i - 1) % 256]
ParamLens == (0..SmallParams) \cup {MAX_PARAMS - 1, MAX_PARAMS, MAX_PARAMS + 1}

\* buf with its last byte changed.
Damaged(buf) == [buf EXCEPT ![Len(buf)] = (buf[Len(buf)] + 1) % 256]

\* What ser.read may return after a request: nothing, an answer to the
\* request with ack OK, the same with its CRC damaged, answers carrying an
\* error ack, an answer cut short, an intact answer to another request, and
\* bytes with a matching CRC that do not start with the sentinel.
TransportReads(cmd, addr) ==
    { <<>>,
      ResponseFrame(cmd, addr, <<EEPROM_LENGTH>>, ACK_OK),
      Damaged(ResponseFrame(cmd, addr, <<EEPROM_LENGTH>>, ACK_OK)),
      ResponseFrame(cmd, addr, <<0>>, ACK_D_GENERAL_ERROR),
      ResponseFrame(cmd, addr, <<0>>, ACK_I_INVALID_CRC),
      SubSeq(ResponseFrame(cmd, addr, <<1, 2>>, ACK_OK), 1, 9),
      ResponseFrame(cmd_InterfaceTestAlive, 1, <<0>>, ACK_OK),
      NoSentinelFrame(cmd, addr, <<EEPROM_LENGTH>>, ACK_OK) }

\* range(retries) with one pass too many.
range_has_next_off_by_one(i, n) == i <= n

\* `for attempt in range(retries)`: a pass follows when attempt < retries.
range_has_next(i, n) == i < n

\* len(params) > 256 tested one entry late.
too_many_params_off_by_one(prm) == Len(prm) > MAX_PARAMS + 1

\* elif len(params) > 256
too_many_params(prm) == Len(prm) > MAX_PARAMS

\* coerce_params leaving an empty list empty.
coerce_params_missing(prm) == prm

\* if len(params) == 0: params.append(0)
coerce_params(prm) == IF Len(prm) = 0 THEN <<0>> ELSE prm

\* is_success accepting every decodable response.
is_success_ignoring_ack(parsed) == parsed # NoneValue

\* parsed_response and parsed_response['ack'] == FOUR_WAY_ACK['ACK_OK']
is_success(parsed) == parsed # NoneValue /\ parsed.ack = ACK_OK

\* error_line reporting "No response" for every failure.
error_line_no_cause(parsed) == [text |-> "error: No response", ack |-> <<>>]

\* print(f"error: {parsed_response['ack'] if parsed_response else 'No response'}")
error_line(parsed) ==
    IF parsed # NoneValue
    THEN [text |-> "error: ", ack |-> <<parsed.ack>>]
    ELSE [text |-> "error: No response", ack |-> <<>>]

TooManyLine == [text |-> "Too many parameters", ack |-> <<>>]
MaxRetriesLine == [text |-> "max retries reached", ack |-> <<>>]

Pending == [type |-> "pending"]

IdleCodec ==
    /\ cdc_stage = "off" /\ cdc_args = <<>> /\ cdc_buf = <<>> /\ cdc_out = Pending
IdleCrc == crc_data = <<>> /\ crc_pos = 0 /\ crc_reg = PyInt(<<>>, 0) /\ crc_out = -1
IdleMsp ==
    /\ msp_stage = "off" /\ msp_frame = <<>> /\ msp_buf = <<>> /\ msp_out = Pending
    /\ msp_rest = <<>> /\ msp_out2 = Pending /\ msp_locals = NoneValue
IdleSes ==
    /\ ses_op = "off" /\ fc_response = <<>> /\ fc_before = <<>>
    /\ ses_arg = NoneValue /\ ses_ret = Pending
IdleEe ==
    /\ ee_stage = "off" /\ ee_block = <<>> /\ ee_dict = Pending
    /\ ee_key = "" /\ ee_param = Pending
IdleRd ==
    /\ rd_pc = "off" /\ esc_index = 0 /\ targets = <<>> /\ eeprom_params = <<>>
    /\ rd_log = <<>> /\ rd_result = Pending
IdleIo ==
    /\ io_pc = "off" /\ io_log = <<>> /\ io_attempt = 0 /\ io_retries = 0
    /\ io_params = "some"
IdleCall ==
    /\ pc = "idle" /\ command = 0 /\ address = 0 /\ params = <<>>
    /\ passed = <<>> /\ retries = 0
    /\ attempt = 0 /\ written = <<>> /\ reads = <<>> /\ stdout = <<>>
    /\ result = NoneValue

\* A session that has made no call yet.
Init == IdleCall /\ IdleCodec /\ IdleCrc /\ IdleMsp /\ IdleSes /\ IdleEe /\ IdleRd /\ IdleIo

\* send_four_way_command(c, prm, a, r) is entered: what it does to the
\* variables of the call.
Enter(c, a, prm, r) ==
    /\ pc = "idle"
    /\ pc' = "loop"
    /\ command' = c /\ address' = a /\ params' = prm /\ retries' = r
    /\ passed' = prm
    /\ attempt' = 0
    /\ written' = <<>> /\ reads' = <<>> /\ stdout' = <<>> /\ result' = NoneValue

\* send_four_way_command(c, ParamList(n), a, r) is entered.
Call(c, a, n, r) ==
    /\ Enter(c, a, ParamList(n), r)
    /\ UNCHANGED otherThanCall

\* A pass of the loop that finds more than 256 parameters: print, return None.
AttemptTooMany ==
    /\ pc = "loop"
    /\ range_has_next(attempt, retries)
    /\ Len(params) # 0
    /\ too_many_params(params)
    /\ stdout' = Append(stdout, TooManyLine)
    /\ result' = NoneValue
    /\ pc' = "done"
    /\ UNCHANGED <<command, address, params, passed, retries, attempt, written,
                   reads>>
    /\ UNCHANGED otherThanCall

\* A pass of the loop that makes an exchange: build the frame, write it, read
\* what the transport holds (one of `responses`), decode it, and return the
\* decoded frame or print the cause and go on to the next pass.  What it
\* does to the variables of the call.
Exchange(responses) ==
    /\ pc = "loop"
    /\ range_has_next(attempt, retries)
    /\ ~(Len(params) # 0 /\ too_many_params(params))
    /\ LET prm == coerce_params(params)
           buffer_out == BuildFrame(command, address, prm)
       IN  /\ params' = prm
           /\ written' = Append(written, buffer_out)
           /\ \E response \in responses :
                 LET parsed_response == process_four_way_response(response)
                 IN  /\ reads' = Append(reads, response)
                     /\ IF is_success(parsed_response)
                        THEN /\ result' = parsed_response
                             /\ pc' = "done"
                             /\ UNCHANGED <<attempt, stdout>>
                        ELSE /\ stdout' = Append(stdout, error_line(parsed_response))
                             /\ attempt' = attempt + 1
                             /\ UNCHANGED <<result, pc>>
    /\ UNCHANGED <<command, address, passed, retries>>

Attempt ==
    /\ Exchange(TransportReads(command, address))
    /\ UNCHANGED otherThanCall

\* The loop is over: print "max retries reached", return None.  What it does
\* to the variables of the call.
GiveUp ==
    /\ pc = "loop"
    /\ ~range_has_next(attempt, retries)
    /\ stdout' = Append(stdout, MaxRetriesLine)
    /\ result' = NoneValue
    /\ pc' = "done"
    /\ UNCHANGED <<command, address, params, passed, retries, attempt, written,
                   reads>>

Exhausted ==
    /\ GiveUp
    /\ UNCHANGED otherThanCall

Next ==
    \/ \E c \in Commands, a \in Addresses, n \in ParamLens, r \in 0..MaxRetries :
          /\ n > SmallParams => (c = cmd_DeviceRead /\ a = EEPROM_OFFSET)
          /\ Call(c, a, n, r)
    \/ AttemptTooMany
    \/ Attempt
    \/ Exhausted

Spec == Init /\ [][Next]_vars

(* Properties of send_four_way_command *)

\* The read buffer r makes an attempt fail: it does not decode (absent, too
\* short, CRC mismatch) or it decodes to a frame whose ack is not ACK_OK.
FailedRead(r) ==
    LET p == process_four_way_response(r)
    IN  p = NoneValue \/ p.ack # ACK_OK

AllReadsFailed == \A i \in 1..Len(reads) : FailedRead(reads[i])

\* C1: with 1..256 parameters and a transport on which every attempt fails,
\* the call writes exactly `retries` frames, never more at any moment, and
\* then returns None.
C1_ExactlyRetriesFrames ==
    /\ Len(written) <= retries
    /\ (pc = "done" /\ Len(passed) \in 1..MAX_PARAMS /\ AllReadsFailed)
          => (Len(written) = retries /\ result = NoneValue)

\* A call with retries = 3 has ended after three CRC-damaged responses.
C1_Witness ==
    /\ pc = "done" /\ retries = 3 /\ Len(passed) \in 1..MAX_PARAMS
    /\ Len(written) = 3
    /\ \A i \in 1..Len(reads) :
          reads[i] = Damaged(ResponseFrame(command, address, <<EEPROM_LENGTH>>, ACK_OK))

\* C2: a frame is returned only when the response read in the same attempt
\* decoded and its ack is ACK_OK; that attempt is the first such one and the
\* last frame written; every failed response has consumed one attempt.
C2_SuccessIsDecodedAckOk ==
    /\ Len(written) = Len(reads)
    /\ pc = "loop" => (attempt = Len(reads) /\ AllReadsFailed)
    /\ (pc = "done" /\ result = NoneValue)
          => (attempt = Len(reads) /\ AllReadsFailed)
    /\ (pc = "done" /\ result # NoneValue)
          => LET k == Len(reads)
             IN  /\ k >= 1
                 /\ result = process_four_way_response(reads[k])
                 /\ result.type = "frame"
                 /\ result.ack = ACK_OK
                 /\ attempt = k - 1
                 /\ \A j \in 1..(k - 1) : FailedRead(reads[j])

\* A frame has been returned by the third attempt, after two failed ones.
C2_Witness ==
    /\ pc = "done" /\ result # NoneValue /\ Len(reads) = 3

\* C8: every written frame is 7 + n bytes long with n >= 1 parameter bytes,
\* n being what its count byte stands for; a call made with an empty list
\* writes count byte 1 and the single parameter byte 0 in every attempt.
C8_NoEmptyParameterBlock ==
    \A i \in 1..Len(written) :
        LET f == written[i]
        IN  /\ Len(f) >= 8
            /\ Len(f) = 7 + (IF f[5] = 0 THEN MAX_PARAMS ELSE f[5])
            /\ passed = <<>> => (Len(f) = 8 /\ f[5] = 1 /\ f[6] = 0)

\* A call made with an empty list has written two frames.
C8_Witness == passed = <<>> /\ Len(written) = 2

\* The cause of the failure of the read buffer r, as the code words it.
CauseOf(r) ==
    LET p == process_four_way_response(r)
    IN  IF p = NoneValue
        THEN [text |-> "error: No response", ack |-> <<>>]
        ELSE [text |-> "error: ", ack |-> <<p.ack>>]

\* Every attempt of the call was made and failed.
RetriesExhausted == pc = "done" /\ retries >= 1 /\ attempt = retries

\* C9 as stated: the value returned after the last failed attempt carries
\* the cause of that attempt.
C9_ReturnCarriesCause ==
    RetriesExhausted
       => /\ "cause" \in DOMAIN result
          /\ result.cause = CauseOf(reads[Len(reads)])

\* C9 amended: after the last failed attempt the value returned is None
\* whatever the cause; the cause of every failed attempt, the last included,
\* is printed (ack code or "No response"), the last one right before
\* "max retries reached".
C9_CauseIsPrintedNotReturned ==
    RetriesExhausted
       => /\ result = NoneValue
          /\ Len(stdout) = retries + 1
          /\ \A i \in 1..retries : stdout[i] = CauseOf(reads[i])
          /\ stdout[retries + 1] = MaxRetriesLine

\* A call has ended exhausted, the last attempt refused with an error ack
\* after an attempt without a decodable response.
C9_Witness ==
    /\ RetriesExhausted /\ retries = 2
    /\ reads[1] = <<>>
    /\ CauseOf(reads[2]).ack = <<ACK_D_GENERAL_ERROR>>

\* C10: a call with more than 256 parameters writes nothing and reads
\* nothing, and with retries >= 1 it ends returning None.
C10_TooManyParamsNoIo ==
    Len(passed) > MAX_PARAMS
       => /\ written = <<>> /\ reads = <<>>
          /\ (pc = "loop" /\ retries >= 1) => (attempt = 0 /\ ENABLED AttemptTooMany)
          /\ pc = "done" => result = NoneValue
          /\ (pc = "done" /\ retries >= 1) => stdout = <<TooManyLine>>

\* A call with 257 parameters and retries = 3 has returned.
C10_Witness == pc = "done" /\ Len(passed) = MAX_PARAMS + 1 /\ retries = 3

(* crc16_xmodem run one byte at a time *)

\* The bytes and buffers crc16_xmodem is given: every buffer of at most
\* MaxCrcLen bytes over CrcBytes, and the ASCII bytes of "123456789".
CrcBytes == {0, 49, 128, 255}
CheckString == <<49, 50, 51, 52, 53, 54, 55, 56, 57>>
CrcInputs ==
    UNION {[1..n -> CrcBytes] : n \in 0..MaxCrcLen} \cup {CheckString}

\* crc16_xmodem(data) is entered: crc = 0.
InitCrc ==
    /\ IdleCall /\ IdleCodec /\ IdleMsp /\ IdleSes /\ IdleEe /\ IdleRd /\ IdleIo
    /\ crc_data \in CrcInputs
    /\ crc_pos = 0
    /\ crc_reg = PyInt(<<>>, 0)
    /\ crc_out = -1

\* One pass of `for byte in data`.
CrcByte ==
    /\ crc_out = -1
    /\ crc_pos < Len(crc_data)
    /\ crc_reg' = crc_byte_step(crc_reg, crc_data[crc_pos + 1])
    /\ crc_pos' = crc_pos + 1
    /\ UNCHANGED <<crc_data, crc_out>>
    /\ UNCHANGED otherThanCrc

\* return crc & 0xFFFF
CrcReturn ==
    /\ crc_out = -1
    /\ crc_pos = Len(crc_data)
    /\ crc_out' = crc_reg.lo
    /\ UNCHANGED <<crc_data, crc_pos, crc_reg>>
    /\ UNCHANGED otherThanCrc

NextCrc == CrcByte \/ CrcReturn

SpecCrc == InitCrc /\ [][NextCrc]_vars

(* Properties of crc16_xmodem *)

\* The reference CRC16/XMODEM: a 16-bit register, initial value 0, fed a
\* byte at a time into its high byte, shifted left most significant bit
\* first, truncated to 16 bits after every shift, polynomial 0x1021.
RECURSIVE RefCrcBits(_, _)
RefCrcBits(reg, k) ==
    IF reg < 0 \/ k = 0 THEN reg
    ELSE RefCrcBits(IF reg >= 32768
                    THEN BitXor((reg * 2) % 65536, 4129)
                    ELSE (reg * 2) % 65536, k - 1)

RECURSIVE RefCrc16(_, _)
RefCrc16(data, n) ==
    IF n = 0 THEN 0
    ELSE RefCrcBits(BitXor(RefCrc16(data, n - 1), data[n] * 256), 8)

\* C5: the low 16 bits of the unmasked register equal the reference register
\* after every byte, so the value returned is the reference CRC of the
\* buffer, lies in 0..65535, agrees with crc16_xmodem as the frame code calls
\* it, and is 0x31C3 for "123456789".
C5_CrcIsXmodem ==
    /\ crc_reg.lo = RefCrc16(crc_data, crc_pos)
    /\ crc_out # -1
          => /\ crc_out = RefCrc16(crc_data, Len(crc_data))
             /\ crc_out \in 0..65535
             /\ crc_out = crc16_xmodem(crc_data)
             /\ crc_data = CheckString => crc_out = 12739

\* The CRC of "123456789" has been returned from a register that grew past
\* 16 bits with nonzero bits above them.
C5_Witness ==
    /\ crc_data = CheckString
    /\ crc_out = 12739
    /\ Len(crc_reg.hi) = 72
    /\ \E i \in 1..Len(crc_reg.hi) : crc_reg.hi[i] = 1

(* The four-way codec applied to one buffer *)

\* The frames the codec is given: commands and addresses at the ends and in
\* the middle of their ranges; parameter lists of 1..SmallParams entries and
\* of 255 and 256 entries, the long ones with two of the command and address
\* pairs; acks OK and not OK.
CodecCommands == {0, cmd_DeviceRead, 255}
CodecAddresses == {0, EEPROM_OFFSET, 65535}
CodecParamLens == (1..SmallParams) \cup {MAX_PARAMS - 1, MAX_PARAMS}
CodecArgs ==
    { a \in [command : CodecCommands, address : CodecAddresses,
             params : {ParamList(n) : n \in CodecParamLens},
             ack : {ACK_OK, ACK_D_GENERAL_ERROR}] :
        Len(a.params) > SmallParams
           => \/ (a.command = cmd_DeviceRead /\ a.address = EEPROM_OFFSET)
              \/ (a.command = 255 /\ a.address = 65535) }

\* The request the encoder has built, as the device answers it: the bytes
\* before the request's CRC, then the ack byte, then the CRC16 of all of
\* them, high byte first.
AnswerTo(request, ack) ==
    LET body == PySlice(request, 0, Len(request) - 2) \o <<ack>>
        checksum == crc16_xmodem(body)
    IN  body \o <<(checksum \div 256) % 256, checksum % 256>>

\* The positions of buf where a byte is replaced: the header and the first
\* parameter, and the last parameter, the ack and the CRC.
MangledPositions(buf) ==
    {i \in 1..Len(buf) : i <= 6 \/ i >= Len(buf) - 3}

\* buf as a transport may deliver it instead: cut to any shorter length,
\* with one byte replaced, or followed by one more byte.
Mangled(buf) ==
    ( {SubSeq(buf, 1, k) : k \in 0..(Len(buf) - 1)}
      \cup {[buf EXCEPT ![i] = v] : i \in MangledPositions(buf), v \in {0, 1, 255}}
      \cup {[buf EXCEPT ![i] = (buf[i] + 1) % 256] : i \in MangledPositions(buf)}
      \cup {Append(buf, 0)} ) \ {buf}

InitCodec ==
    /\ IdleCall /\ IdleCrc /\ IdleMsp /\ IdleSes /\ IdleEe /\ IdleRd /\ IdleIo
    /\ cdc_stage = "args"
    /\ cdc_args \in CodecArgs
    /\ cdc_buf = <<>>
    /\ cdc_out = Pending

\* The encoder of send_four_way_command builds the request.
CodecEncode ==
    /\ cdc_stage = "args"
    /\ cdc_buf' = BuildFrame(cdc_args.command, cdc_args.address, cdc_args.params)
    /\ cdc_stage' = "request"
    /\ UNCHANGED <<cdc_args, cdc_out>>
    /\ UNCHANGED otherThanCodec

\* The device answers the request with cdc_args.ack.
CodecAnswer ==
    /\ cdc_stage = "request"
    /\ cdc_out = Pending
    /\ cdc_buf' = AnswerTo(cdc_buf, cdc_args.ack)
    /\ cdc_stage' = "response"
    /\ UNCHANGED <<cdc_args, cdc_out>>
    /\ UNCHANGED otherThanCodec

\* The transport delivers the answer mangled.
CodecMangle ==
    /\ cdc_stage = "response"
    /\ cdc_out = Pending
    /\ cdc_buf' \in Mangled(cdc_buf)
    /\ cdc_stage' = "mangled"
    /\ UNCHANGED <<cdc_args, cdc_out>>
    /\ UNCHANGED otherThanCodec

\* process_four_way_response(cdc_buf) is called.
CodecDecode ==
    /\ cdc_stage \in {"request", "response", "mangled"}
    /\ cdc_out = Pending
    /\ cdc_out' = process_four_way_response(cdc_buf)
    /\ UNCHANGED <<cdc_stage, cdc_args, cdc_buf>>
    /\ UNCHANGED otherThanCodec

NextCodec == CodecEncode \/ CodecAnswer \/ CodecMangle \/ CodecDecode

SpecCodec == InitCodec /\ [][NextCodec]_vars

(* Properties of the four-way codec *)

CodecDecoded == cdc_out # Pending

\* The number of parameters a count byte stands for.
CountOf(b) == IF b = 0 THEN 256 ELSE b

\* C3 as stated: decoding the bytes the encoder built yields the command,
\* the address and the parameters that were encoded.
C3_DecodeOfRequest ==
    (cdc_stage = "request" /\ CodecDecoded)
       => /\ cdc_out.type = "frame"
          /\ cdc_out.command = cdc_args.command
          /\ cdc_out.address = cdc_args.address
          /\ cdc_out.params = cdc_args.params

\* C3 amended: the bytes the encoder built do not decode (a request has no
\* ack byte, so it is one byte short of what the decoder asks for); with an
\* ack byte put after the parameters and the CRC taken over sentinel through
\* ack, they decode to the command, the address and the parameters that were
\* encoded, and to that ack.
C3_DecodeOfAnsweredRequest ==
    /\ (cdc_stage = "request" /\ CodecDecoded) => cdc_out = NoneValue
    /\ (cdc_stage = "response" /\ CodecDecoded)
          => /\ cdc_out.type = "frame"
             /\ cdc_out.command = cdc_args.command
             /\ cdc_out.address = cdc_args.address
             /\ cdc_out.params = cdc_args.params
             /\ cdc_out.ack = cdc_args.ack

\* The answer to a request for address 0xF800 with 256 parameters has been
\* decoded.
C3_Witness ==
    /\ cdc_stage = "response" /\ CodecDecoded
    /\ cdc_args.address = EEPROM_OFFSET
    /\ Len(cdc_args.params) = 256
    /\ cdc_out.type = "frame"

\* C4: the decoder returns no frame or a complete frame and reads no byte
\* past the end of the buffer; no frame for a buffer of fewer than 9 bytes,
\* of fewer than 8 + n bytes, or whose CRC16 over sentinel through ack is not
\* its two CRC bytes; the fields of a returned frame are the buffer's bytes.
C4_DecodeIsTotalAndExact ==
    CodecDecoded
       => LET data == cdc_buf
              n == IF Len(data) >= 5 THEN CountOf(data[5]) ELSE 0
              whole == Len(data) >= 9 /\ Len(data) >= 8 + n
              crc_ok == crc16_xmodem(SubSeq(data, 1, 6 + n))
                           = data[7 + n] * 256 + data[8 + n]
          IN  /\ cdc_out # IndexError
              /\ cdc_out = NoneValue \/ cdc_out.type = "frame"
              /\ cdc_out = NoneValue <=> (~whole \/ ~crc_ok)
              /\ cdc_out # NoneValue
                    => /\ DOMAIN cdc_out
                            = {"type", "command", "address", "ack", "checksum", "params"}
                       /\ cdc_out.command = data[2]
                       /\ cdc_out.address = data[3] * 256 + data[4]
                       /\ cdc_out.params = SubSeq(data, 6, 5 + n)
                       /\ cdc_out.ack = data[6 + n]
                       /\ cdc_out.checksum = data[7 + n] * 256 + data[8 + n]

\* A buffer of at least 9 bytes that is one byte short of 8 + n has been
\* decoded to no frame.
C4_Witness ==
    /\ cdc_stage = "mangled" /\ CodecDecoded
    /\ Len(cdc_buf) >= 9
    /\ Len(cdc_buf) = 7 + CountOf(cdc_buf[5])
    /\ cdc_out = NoneValue

\* C7: the request carries count byte n for 1 <= n <= 255 parameters and
\* count byte 0 for 256, the parameter bytes all following it; an intact
\* frame with count byte 0 decodes to its 256 parameters, and no buffer with
\* count byte 0 decodes to a frame with another number of them.
C7_CountByte ==
    LET n == Len(cdc_args.params)
    IN  /\ cdc_stage = "request"
           => /\ n <= 255 => cdc_buf[5] = n
              /\ n = 256 => cdc_buf[5] = 0
              /\ Len(cdc_buf) = 7 + n
              /\ SubSeq(cdc_buf, 6, 5 + n) = cdc_args.params
        /\ (cdc_stage = "response" /\ CodecDecoded /\ n = 256)
           => /\ cdc_buf[5] = 0
              /\ Len(cdc_buf) = 264
              /\ cdc_out.type = "frame"
              /\ Len(cdc_out.params) = 256
        /\ (CodecDecoded /\ cdc_out # NoneValue /\ cdc_buf[5] = 0)
           => /\ Len(cdc_buf) >= 264
              /\ Len(cdc_out.params) = 256
              /\ cdc_out.params = SubSeq(cdc_buf, 6, 261)

\* A frame of 265 bytes with count byte 0 has been decoded to 256
\* parameters.
C7_Witness ==
    /\ CodecDecoded /\ cdc_out # NoneValue
    /\ cdc_buf[5] = 0
    /\ Len(cdc_buf) = 265
    /\ Len(cdc_out.params) = 256

(* process_response *)

\* The locals of process_response before the loop; `returned` and `value`
\* hold the return statement the loop has executed, if any.  command is
\* None until state 4 sets it: -1 stands for it.
MspLocals ==
    [state |-> 0, message_buffer |-> <<>>, message_checksum |-> 0,
     message_length_expected |-> 0, message_length_received |-> 0,
     command |-> -1, returned |-> FALSE, value |-> NoneValue]

\* accumulate leaving the checksum as it was.
accumulate_skipped(checksum, char) == checksum

\* message_checksum ^= char
accumulate(checksum, char) == BitXor(checksum, char)

\* message_length_received >= message_length_expected, tested one byte late.
payload_done_late(received, expected) == received > expected

\* The test that ends state 5.
payload_done(received, expected) == received >= expected

\* One pass of `for char in data`.  The two diagnostics printed in states 2
\* and 6 change nothing else.
msp_step(l, char) ==
    IF l.returned THEN l
    ELSE IF l.state = 0
         THEN IF char = 36 THEN [l EXCEPT !.state = 1] ELSE l
    ELSE IF l.state = 1
         THEN IF char = 77 THEN [l EXCEPT !.state = 2] ELSE [l EXCEPT !.state = 0]
    ELSE IF l.state = 2
         THEN IF char \in {60, 62, 33}
              THEN [l EXCEPT !.state = 3]
              ELSE [l EXCEPT !.state = 0]
    ELSE IF l.state = 3
         THEN [l EXCEPT !.message_length_expected = char,
                        !.message_checksum = char,
                        !.message_buffer = [i \in 1..char |-> 0],
                        !.state = 4]
    ELSE IF l.state = 4
         THEN [l EXCEPT !.command = char,
                        !.message_checksum = accumulate(l.message_checksum, char),
                        !.state = IF l.message_length_expected > 0 THEN 5 ELSE 6]
    ELSE IF l.state = 5
         THEN [l EXCEPT !.message_buffer[l.message_length_received + 1] = char,
                        !.message_checksum = accumulate(l.message_checksum, char),
                        !.message_length_received = l.message_length_received + 1,
                        !.state = IF payload_done(l.message_length_received + 1,
                                                  l.message_length_expected)
                                  THEN 6 ELSE 5]
    ELSE IF l.message_checksum = char
         THEN [l EXCEPT !.returned = TRUE,
                        !.value = [type |-> "frame", command |-> l.command,
                                   data |-> l.message_buffer]]
         ELSE [l EXCEPT !.returned = TRUE, !.value = NoneValue]

\* `for char in data` over positions a..b of data, in order.  The test on
\* l.state makes the locals a value before the next pass.
RECURSIVE msp_loop(_, _, _, _)
msp_loop(data, a, b, l) ==
    IF l.state < 0 \/ a > b THEN l
    ELSE IF a = b THEN msp_step(l, data[a])
    ELSE LET m == (a + b) \div 2
         IN  msp_loop(data, m + 1, b, msp_loop(data, a, m, l))

\* The locals a call starts from, were they the ones the call before it left.
locals_kept(left) == [left EXCEPT !.returned = FALSE, !.value = NoneValue]

\* The locals a call starts from: the assignments before the loop, whatever
\* the call before it left behind.
locals_at_entry(left) == MspLocals

\* The locals when a call on `data` returns, `left` being the locals the
\* call before it ended with.
process_response_locals(data, left) ==
    msp_loop(data, 1, Len(data), locals_at_entry(left))

\* The value of the return statement reached; `return None` after the loop.
process_response(data) == msp_loop(data, 1, Len(data), MspLocals).value

(* send_msp_* *)

MSP_HEADER == <<36, 77, 60>>
MSP_API_VERSION == 1
MSP_FC_VARIANT == 2
MSP_BATTERY_STATE == 130
MSP_SET_PASSTHROUGH == 245
MSP_MOTOR == 104
MSP_MOTOR_CONFIG == 131

\* The command each send_msp_* builder puts in its request.
BuilderCommands ==
    {MSP_API_VERSION, MSP_FC_VARIANT, MSP_BATTERY_STATE, MSP_MOTOR,
     MSP_MOTOR_CONFIG, MSP_SET_PASSTHROUGH}

\* The bytes handed to send_msp_command by the builder of cmd:
\* MSP_HEADER + [0x00, cmd, 0x00 ^ cmd].
send_msp_request(cmd) == MSP_HEADER \o <<0, cmd, BitXor(0, cmd)>>

(* process_response applied to buffers *)

\* The frames a flight controller sends: directions '<', '>' and '!',
\* commands MSP_API_VERSION, MSP_MOTOR and one that is the byte '$', payloads
\* of at most MaxPayload bytes over MspBytes ('$' and 'M' among them).
MspDirections == {60, 62, 33}
MspCommands == {MSP_API_VERSION, MSP_MOTOR, 36}
MspBytes == {0, 36, 77, 255}
ShortFrames ==
    [direction : MspDirections, command : MspCommands,
     payload : UNION {[1..n -> MspBytes] : n \in 0..MaxPayload}]

\* Frames with the longest payloads the length byte can announce, and one
\* whose payload is itself a whole frame.
LongFrames ==
    {[direction |-> 62, command |-> MSP_MOTOR,
      payload |-> [i \in 1..n |-> (7 * i) % 256]] : n \in {254, 255}}
NestedFrame ==
    [direction |-> 62, command |-> MSP_MOTOR_CONFIG,
     payload |-> <<36, 77, 60, 0, 1, 1>>]

\* The requests of the builders, as frames.
RequestFrames ==
    [direction : {60}, command : BuilderCommands, payload : {<<>>}]

MspFrames == ShortFrames \cup LongFrames \cup {NestedFrame} \cup RequestFrames

\* The XOR of the bytes of data[a..b], starting from c.
RECURSIVE XorAll(_, _, _, _)
XorAll(c, data, a, b) ==
    IF c < 0 \/ a > b THEN c
    ELSE IF a = b THEN BitXor(c, data[a])
    ELSE LET m == (a + b) \div 2
         IN  XorAll(XorAll(c, data, a, m), data, m + 1, b)

\* A frame on the wire: '$', 'M', direction, length, command, payload, and
\* the XOR of length, command and payload.
MspEncode(f) ==
    <<36, 77, f.direction, Len(f.payload), f.command>> \o f.payload
       \o <<XorAll(BitXor(Len(f.payload), f.command), f.payload,
                   1, Len(f.payload))>>

\* Bytes ahead of a frame that hold no '$', 'M', direction in a row.
NoiseBytes == {0, 36, 77, 60}
HasPreamble(s) ==
    \E i \in 1..(Len(s) - 2) :
        s[i] = 36 /\ s[i + 1] = 77 /\ s[i + 2] \in MspDirections
Noise ==
    {s \in UNION {[1..n -> NoiseBytes] : n \in 1..MaxNoise} : ~HasPreamble(s)}

InitMsp ==
    /\ IdleCall /\ IdleCodec /\ IdleCrc /\ IdleSes /\ IdleEe /\ IdleRd /\ IdleIo
    /\ msp_stage = "frame"
    /\ msp_frame \in MspFrames
    /\ msp_buf = <<>>
    /\ msp_out = Pending
    /\ msp_rest = <<>>
    /\ msp_out2 = Pending
    /\ msp_locals = MspLocals

\* The frame is put on the wire, alone in the buffer.
MspSend ==
    /\ msp_stage = "frame"
    /\ msp_buf' = MspEncode(msp_frame)
    /\ msp_stage' = "encoded"
    /\ UNCHANGED <<msp_frame, msp_out, msp_rest, msp_out2, msp_locals>>
    /\ UNCHANGED otherThanMsp

\* A send_msp_* builder makes the request, alone in the buffer.
MspRequest ==
    /\ msp_stage = "frame"
    /\ msp_frame \in RequestFrames
    /\ msp_buf' = send_msp_request(msp_frame.command)
    /\ msp_stage' = "request"
    /\ UNCHANGED <<msp_frame, msp_out, msp_rest, msp_out2, msp_locals>>
    /\ UNCHANGED otherThanMsp

\* One payload byte or the checksum byte (positions 6..Len) is replaced by
\* another value.
MspCorrupt ==
    /\ msp_stage = "encoded"
    /\ msp_out = Pending
    /\ \E i \in 6..Len(msp_buf) :
          \E v \in (MspBytes \cup {1, (msp_buf[i] + 1) % 256}) \ {msp_buf[i]} :
             msp_buf' = [msp_buf EXCEPT ![i] = v]
    /\ msp_stage' = "corrupted"
    /\ UNCHANGED <<msp_frame, msp_out, msp_rest, msp_out2, msp_locals>>
    /\ UNCHANGED otherThanMsp

\* Noise arrives ahead of the frame in the same buffer.
MspNoise ==
    /\ msp_stage = "encoded"
    /\ msp_out = Pending
    /\ \E noise \in Noise : msp_buf' = noise \o msp_buf
    /\ msp_stage' = "noisy"
    /\ UNCHANGED <<msp_frame, msp_out, msp_rest, msp_out2, msp_locals>>
    /\ UNCHANGED otherThanMsp

\* The frame arrives in two reads: its first k bytes, then the others.
MspSplit ==
    /\ msp_stage = "encoded"
    /\ msp_out = Pending
    /\ \E k \in 1..(Len(msp_buf) - 1) :
          /\ msp_buf' = SubSeq(msp_buf, 1, k)
          /\ msp_rest' = SubSeq(msp_buf, k + 1, Len(msp_buf))
    /\ msp_stage' = "split"
    /\ UNCHANGED <<msp_frame, msp_out, msp_out2, msp_locals>>
    /\ UNCHANGED otherThanMsp

\* process_response(msp_buf) is called.
MspParse ==
    /\ msp_stage \in {"encoded", "request", "corrupted", "noisy", "split"}
    /\ msp_out = Pending
    /\ msp_locals' = process_response_locals(msp_buf, msp_locals)
    /\ msp_out' = msp_locals'.value
    /\ UNCHANGED <<msp_frame, msp_stage, msp_buf, msp_rest, msp_out2>>
    /\ UNCHANGED otherThanMsp

\* process_response(msp_rest) is called, after the call on msp_buf.
MspParseRest ==
    /\ msp_stage = "split"
    /\ msp_out # Pending
    /\ msp_out2 = Pending
    /\ msp_locals' = process_response_locals(msp_rest, msp_locals)
    /\ msp_out2' = msp_locals'.value
    /\ UNCHANGED <<msp_frame, msp_stage, msp_buf, msp_rest, msp_out>>
    /\ UNCHANGED otherThanMsp

NextMsp ==
    \/ MspSend \/ MspRequest \/ MspCorrupt \/ MspNoise \/ MspSplit
    \/ MspParse \/ MspParseRest

SpecMsp == InitMsp /\ [][NextMsp]_vars

(* Properties of process_response *)

\* C6: a valid frame alone in the buffer, with one payload byte or its
\* checksum byte replaced by another value, parses to no frame.
C6_CorruptedFrameRejected ==
    (msp_stage = "corrupted" /\ msp_out # Pending) => msp_out = NoneValue

\* A frame whose payload XORs to 0 has had its first payload byte replaced
\* and has been parsed to no frame.
C6_Witness ==
    /\ msp_stage = "corrupted" /\ msp_out = NoneValue
    /\ msp_frame.payload = <<36, 36>>
    /\ msp_buf[6] # 36

\* What process_response returns for frame f.
FrameOf(f) == [type |-> "frame", command |-> f.command, data |-> f.payload]

\* C11: parsing the encoding of a frame, alone in the buffer, returns the
\* frame's command id and payload, for payloads of 0 to 255 bytes; parsing
\* the request of a send_msp_* builder returns its command id and an empty
\* payload.
C11_RoundTrip ==
    /\ (msp_stage = "encoded" /\ msp_out # Pending) => msp_out = FrameOf(msp_frame)
    /\ (msp_stage = "request" /\ msp_out # Pending)
          => msp_out = [type |-> "frame", command |-> msp_frame.command,
                        data |-> <<>>]

\* A frame with a payload of 255 bytes has been parsed back.
C11_Witness ==
    /\ msp_stage = "encoded"
    /\ Len(msp_frame.payload) = 255
    /\ msp_out = FrameOf(msp_frame)

\* C17: noise without a full preamble, then one valid frame: the call
\* returns the frame's command and payload.
C17_NoiseThenFrame ==
    (msp_stage = "noisy" /\ msp_out # Pending) => msp_out = FrameOf(msp_frame)

\* C18: a frame split into two non-empty buffers passed to two successive
\* calls: the first returns None, the second does not return the frame, and
\* each call returns what a call on its buffer alone returns.
C18_NoStateBetweenCalls ==
    /\ (msp_stage = "split" /\ msp_out # Pending)
          => /\ msp_out = NoneValue
             /\ msp_out = process_response(msp_buf)
    /\ (msp_stage = "split" /\ msp_out2 # Pending)
          => /\ msp_out2 # FrameOf(msp_frame)
             /\ msp_out2 = process_response(msp_rest)

\* The frame whose payload is a frame was split after its fifth byte: the
\* second call returned the frame inside the payload.
C18_Witness ==
    /\ msp_stage = "split"
    /\ msp_frame = NestedFrame
    /\ Len(msp_buf) = 5
    /\ msp_out = NoneValue
    /\ msp_out2 = [type |-> "frame", command |-> 1, data |-> <<>>]

(* decode_response, reset, get_motor_count *)

\* Python values: ints, floats as a quotient, f-strings as their template
\* and the values put in it, str literals as f-strings without values.
IntValue(n) == [type |-> "int", v |-> n]
FloatValue(n, d) == [type |-> "float", num |-> n, den |-> d]
Text(template, args) == [type |-> "str", template |-> template, args |-> args]
Raised(exc) == [type |-> "raise", exc |-> exc]

\* The keys decode_response stores under, and the dict of __init__.  A key
\* that is not in the dict holds Absent.
FcKeys ==
    {"protocol_version", "api_version", "fc_variant", "battery_cell_count",
     "battery_capacity", "battery_voltage", "battery_drawn", "battery_amps",
     "motor_count"}
Absent == [type |-> "absent"]
EmptyFc == [k \in FcKeys |-> Absent]

\* int.from_bytes(s, 'little')
RECURSIVE from_bytes_little(_)
from_bytes_little(s) ==
    IF s = <<>> THEN 0 ELSE Head(s) + 256 * from_bytes_little(Tail(s))

\* data.decode('ascii'): the code points of the bytes, or UnicodeDecodeError
\* when one of them is not below 128.
IsAscii(data) == \A i \in 1..Len(data) : data[i] < 128
BTFL == <<66, 84, 70, 76>>
KISS == <<75, 73, 83, 83>>
INAV == <<73, 78, 65, 86>>
ARDU == <<65, 82, 68, 85>>

\* The name stored for a decoded variant string.
variant_name(variant) ==
    IF variant = BTFL THEN "BETAFLIGHT"
    ELSE IF variant = KISS THEN "KISS"
    ELSE IF variant = INAV THEN "INAV"
    ELSE IF variant = ARDU THEN "ARDUPILOT"
    ELSE "UNKNOWN"

\* The loop of the MSP_MOTOR branch: the two-byte slices of data, from
\* i (0-based, even) on, that are not zero.
RECURSIVE count_motors(_, _)
count_motors(data, i) ==
    IF i >= Len(data) THEN 0
    ELSE (IF from_bytes_little(PySlice(data, i, i + 2)) > 0 THEN 1 ELSE 0)
            + count_motors(data, i + 2)

\* The if/elif chain with its last elif taken for the else.
branch_of_no_else(cmd) ==
    IF cmd = MSP_API_VERSION THEN "API_VERSION"
    ELSE IF cmd = MSP_FC_VARIANT THEN "FC_VARIANT"
    ELSE IF cmd = MSP_BATTERY_STATE THEN "BATTERY_STATE"
    ELSE IF cmd = MSP_MOTOR THEN "MOTOR"
    ELSE IF cmd = MSP_MOTOR_CONFIG THEN "MOTOR_CONFIG"
    ELSE "SET_PASSTHROUGH"

\* The branch of the if/elif chain taken for a command.
branch_of(cmd) ==
    IF cmd = MSP_API_VERSION THEN "API_VERSION"
    ELSE IF cmd = MSP_FC_VARIANT THEN "FC_VARIANT"
    ELSE IF cmd = MSP_BATTERY_STATE THEN "BATTERY_STATE"
    ELSE IF cmd = MSP_MOTOR THEN "MOTOR"
    ELSE IF cmd = MSP_MOTOR_CONFIG THEN "MOTOR_CONFIG"
    ELSE IF cmd = MSP_SET_PASSTHROUGH THEN "SET_PASSTHROUGH"
    ELSE "unknown"

\* The battery stores, the cell count going under motor_count.
store_battery_wrong_key(fc, data) ==
    [fc EXCEPT
        !["motor_count"] = IntValue(data[1]),
        !["battery_capacity"] = IntValue(from_bytes_little(PySlice(data, 1, 3))),
        !["battery_voltage"] = FloatValue(data[4], 10),
        !["battery_drawn"] = IntValue(from_bytes_little(PySlice(data, 4, 6))),
        !["battery_amps"] =
            FloatValue(from_bytes_little(PySlice(data, 6, 8)), 100)]

\* The five stores of the MSP_BATTERY_STATE branch.
store_battery(fc, data) ==
    [fc EXCEPT
        !["battery_cell_count"] = IntValue(data[1]),
        !["battery_capacity"] = IntValue(from_bytes_little(PySlice(data, 1, 3))),
        !["battery_voltage"] = FloatValue(data[4], 10),
        !["battery_drawn"] = IntValue(from_bytes_little(PySlice(data, 4, 6))),
        !["battery_amps"] =
            FloatValue(from_bytes_little(PySlice(data, 6, 8)), 100)]

\* decode_response(parsed) on a session whose dict is fc: the dict
\* afterwards and the value returned, or the exception raised.
decode_response(fc, parsed) ==
    IF parsed = NoneValue
    THEN [fc |-> fc, ret |-> Text("Invalid or incomplete response", <<>>)]
    ELSE
    LET cmd == parsed.command
        data == parsed.data
        branch == branch_of(cmd)
    IN  IF branch = "API_VERSION"
        THEN IF Len(data) < 3
             THEN [fc |-> fc, ret |-> Text("Incomplete API_VERSION data", <<>>)]
             ELSE LET api == Text("{}.{}.0", <<data[2], data[3]>>)
                  IN  [fc |-> [fc EXCEPT !["protocol_version"] = IntValue(data[1]),
                                         !["api_version"] = api],
                       ret |-> Text("API_VERSION: {}", <<api>>)]
        ELSE IF branch = "FC_VARIANT"
        THEN IF ~IsAscii(data)
             THEN [fc |-> fc, ret |-> Raised("UnicodeDecodeError")]
             ELSE LET name == Text(variant_name(data), <<>>)
                  IN  [fc |-> [fc EXCEPT !["fc_variant"] = name],
                       ret |-> Text("FC_VARIANT: {}", <<name>>)]
        ELSE IF branch = "BATTERY_STATE"
        THEN IF Len(data) < 8
             THEN [fc |-> fc, ret |-> Text("Incomplete BATTERY_STATE data", <<>>)]
             ELSE LET after == store_battery(fc, data)
                  IN  [fc |-> after,
                       ret |-> Text("BATTERY INFO: Cell Count: {}, Capacity: {} mAh, Voltage: {} V, Drawn: {} mAh, Amps: {} A",
                                    <<after["battery_cell_count"],
                                      after["battery_capacity"],
                                      after["battery_voltage"],
                                      after["battery_drawn"],
                                      after["battery_amps"]>>)]
        ELSE IF branch = "MOTOR"
        THEN LET n == IntValue(count_motors(data, 0))
             IN  [fc |-> [fc EXCEPT !["motor_count"] = n],
                  ret |-> Text("MOTOR COUNT: {}", <<n>>)]
        ELSE IF branch = "MOTOR_CONFIG"
        THEN IF Len(data) < 7
             THEN [fc |-> fc, ret |-> Text("Incomplete MOTOR_CONFIG data", <<>>)]
             ELSE [fc |-> [fc EXCEPT !["motor_count"] = IntValue(data[7])],
                   ret |-> Text("MOTOR COUNT: {}", <<IntValue(data[7])>>)]
        ELSE IF branch = "SET_PASSTHROUGH"
        THEN IF Len(data) < 1
             THEN [fc |-> fc, ret |-> Text("Incomplete SET_PASSTHROUGH data", <<>>)]
             ELSE [fc |-> fc,
                   ret |-> Text("SET_PASSTHROUGH STATUS: {}", <<IntValue(data[1])>>)]
        ELSE [fc |-> fc,
              ret |-> Text("Unknown command {} with data: {}", <<cmd, data>>)]

\* self.fc_response.get('motor_count', 0)
get_motor_count(fc) ==
    IF fc["motor_count"] = Absent THEN 0 ELSE fc["motor_count"].v

(* A session: decode_response and reset called on one object *)

\* The command ids the if/elif chain of decode_response names.
RecognisedCommands ==
    {MSP_API_VERSION, MSP_FC_VARIANT, MSP_BATTERY_STATE, MSP_MOTOR,
     MSP_MOTOR_CONFIG, MSP_SET_PASSTHROUGH}

\* Payloads: every prefix of 'BTFL' 0 0 4 1 and of 0 0 e8 03 0 0 0 0, and
\* 'KISS'.
PayloadBases == {<<66, 84, 70, 76, 0, 0, 4, 1>>, <<0, 0, 232, 3, 0, 0, 0, 0>>}
SessionPayloads ==
    {SubSeq(b, 1, n) : b \in PayloadBases, n \in 0..8} \cup {KISS}

\* What process_response can hand to decode_response: None, or a frame with
\* a recognised command or with the command '$'.
SessionInputs ==
    {NoneValue}
       \cup [type : {"frame"}, command : RecognisedCommands \cup {36},
             data : SessionPayloads]

InitSes ==
    /\ IdleCall /\ IdleCodec /\ IdleCrc /\ IdleMsp /\ IdleEe /\ IdleRd /\ IdleIo
    /\ ses_op = "new"
    /\ fc_response = EmptyFc
    /\ fc_before = EmptyFc
    /\ ses_arg = NoneValue
    /\ ses_ret = Pending

\* decode_response(parsed) is called.
Decode ==
    /\ \E parsed \in SessionInputs :
          LET after == decode_response(fc_response, parsed)
          IN  /\ ses_arg' = parsed
              /\ fc_response' = after.fc
              /\ ses_ret' = after.ret
    /\ fc_before' = fc_response
    /\ ses_op' = "decode"
    /\ UNCHANGED otherThanSes

\* reset is called, on the object or on the class.  It is defined without
\* parameters: on the object the call is refused with TypeError, on the
\* class its body finds no name `self` and raises NameError.
Reset ==
    /\ ses_ret' \in {Raised("TypeError"), Raised("NameError")}
    /\ fc_response' = fc_response
    /\ fc_before' = fc_response
    /\ ses_arg' = NoneValue
    /\ ses_op' = "reset"
    /\ UNCHANGED otherThanSes

NextSes == Decode \/ Reset

SpecSes == InitSes /\ [][NextSes]_vars

(* Properties of the session *)

DecodedFrame == ses_op = "decode" /\ ses_arg # NoneValue

\* The least payload length the specification gives each command.
MinimumLength(cmd) ==
    IF cmd = MSP_API_VERSION THEN 3
    ELSE IF cmd = MSP_FC_VARIANT THEN 4
    ELSE IF cmd = MSP_BATTERY_STATE THEN 8
    ELSE IF cmd = MSP_MOTOR_CONFIG THEN 7
    ELSE IF cmd = MSP_SET_PASSTHROUGH THEN 1
    ELSE 0

IsIncomplete(ret) ==
    /\ ret.type = "str"
    /\ ret.template \in {"Incomplete API_VERSION data",
                         "Incomplete FC_VARIANT data",
                         "Incomplete BATTERY_STATE data",
                         "Incomplete MOTOR_CONFIG data",
                         "Incomplete SET_PASSTHROUGH data"}

\* C12: decode_response on a recognised command with a payload shorter than
\* the command's minimum returns the incomplete indicator, does not raise,
\* and leaves fc_response as it was.
C12_ShortPayloadIsIncomplete ==
    (DecodedFrame /\ Len(ses_arg.data) < MinimumLength(ses_arg.command))
        => /\ IsIncomplete(ses_ret)
           /\ fc_response = fc_before

\* C13: decode_response on a frame whose command is not recognised returns
\* the unknown-command result, does not raise, and leaves every key of
\* fc_response as it was.
C13_UnknownCommandIsNoError ==
    (DecodedFrame /\ ses_arg.command \notin RecognisedCommands)
        => /\ ses_ret = Text("Unknown command {} with data: {}",
                             <<ses_arg.command, ses_arg.data>>)
           /\ \A k \in FcKeys : fc_response[k] = fc_before[k]

\* A frame with command '$' and a payload was decoded on a session that
\* knew its motor count.
C13_Witness ==
    /\ DecodedFrame
    /\ ses_arg.command = 36
    /\ ses_arg.data = KISS
    /\ ses_ret.type = "str"
    /\ fc_response["motor_count"] = IntValue(4)

\* C14: what decode_response stored stays stored through later operations
\* until reset; after reset fc_response is empty and get_motor_count() is 0.
C14_PersistsUntilReset ==
    /\ ses_op = "decode"
          => \A k \in FcKeys : fc_before[k] # Absent => fc_response[k] # Absent
    /\ ses_op = "reset"
          => /\ fc_response = EmptyFc
             /\ get_motor_count(fc_response) = 0

\* C15: once a motor_count is stored, no decode_response call changes what
\* get_motor_count() returns.
C15_MotorCountFixed ==
    (ses_op = "decode" /\ fc_before["motor_count"] # Absent)
        => get_motor_count(fc_response) = get_motor_count(fc_before)

\* C15, amended: once a motor_count is stored, a decode_response call
\* changes what get_motor_count() returns only when it decodes an MSP_MOTOR
\* frame or an MSP_MOTOR_CONFIG frame of at least 7 payload bytes, and then
\* to the count of that frame; every other call leaves it as it was.
C15_MotorCountChangesByMotorFrames ==
    (ses_op = "decode" /\ fc_before["motor_count"] # Absent)
        => IF /\ ses_arg # NoneValue
              /\ \/ ses_arg.command = MSP_MOTOR
                 \/ ses_arg.command = MSP_MOTOR_CONFIG /\ Len(ses_arg.data) >= 7
           THEN get_motor_count(fc_response)
                   = IF ses_arg.command = MSP_MOTOR
                     THEN count_motors(ses_arg.data, 0)
                     ELSE ses_arg.data[7]
           ELSE get_motor_count(fc_response) = get_motor_count(fc_before)

\* A session that held the motor count 1 decoded MSP_MOTOR_CONFIG and holds 4.
C15_Witness ==
    /\ ses_op = "decode"
    /\ get_motor_count(fc_before) = 1 /\ fc_before["motor_count"] # Absent
    /\ ses_arg # NoneValue /\ ses_arg.command = MSP_MOTOR_CONFIG
    /\ get_motor_count(fc_response) = 4

(* parse_eeprom_data, parse_eeprom_params *)

\* The offsets of the EEPROM fields, and the keys in the order of the dict.
EEPROM_STRUCT ==
    [reserved_0 |-> 0, eeprom_version |-> 1, reserved_1 |-> 2,
     version_major |-> 3, version_minor |-> 4, firmware_name |-> 5,
     dir_reversed |-> 17, bi_direction |-> 18, use_sine_start |-> 19,
     comp_pwm |-> 20, variable_pwm |-> 21, stuck_rotor_protection |-> 22,
     advance_level |-> 23, pwm_frequency |-> 24, startup_power |-> 25,
     motor_kv |-> 26, motor_poles |-> 27, brake_on_stop |-> 28,
     stall_protection |-> 29, beep_volume |-> 30,
     telementry_on_interval |-> 31, servo_low_threshold |-> 32,
     servo_high_threshold |-> 33, servo_neutral |-> 34,
     servo_dead_band |-> 35, low_voltage_cut_off |-> 36,
     low_cell_volt_cutoff |-> 37, rc_car_reverse |-> 38,
     use_hall_sensors |-> 39, sine_mode_changeover_thottle_level |-> 40,
     drag_brake_strength |-> 41, driving_brake_strength |-> 42,
     limits_temperature |-> 43, limits_current |-> 44,
     sine_mode_power |-> 45, input_type |-> 46, auto_advance |-> 47,
     tune |-> 48, can_node |-> 176, esc_index |-> 177,
     require_arming |-> 178, telem_rate |-> 179,
     require_zero_throttle |-> 180, filter_hz |-> 181, debug_rate |-> 182,
     term_enable |-> 183, can_reserved |-> 184]
EEPROM_KEYS ==
    <<"reserved_0", "eeprom_version", "reserved_1", "version_major",
      "version_minor", "firmware_name", "dir_reversed", "bi_direction",
      "use_sine_start", "comp_pwm", "variable_pwm", "stuck_rotor_protection",
      "advance_level", "pwm_frequency", "startup_power", "motor_kv",
      "motor_poles", "brake_on_stop", "stall_protection", "beep_volume",
      "telementry_on_interval", "servo_low_threshold",
      "servo_high_threshold", "servo_neutral", "servo_dead_band",
      "low_voltage_cut_off", "low_cell_volt_cutoff", "rc_car_reverse",
      "use_hall_sensors", "sine_mode_changeover_thottle_level",
      "drag_brake_strength", "driving_brake_strength", "limits_temperature",
      "limits_current", "sine_mode_power", "input_type", "auto_advance",
      "tune", "can_node", "esc_index", "require_arming", "telem_rate",
      "require_zero_throttle", "filter_hz", "debug_rate", "term_enable",
      "can_reserved">>

\* A str given by its code points, a list, a bytes object, a dict.
Str(chars) == [type |-> "str", chars |-> chars]
ListValue(items) == [type |-> "list", items |-> items]
BytesValue(b) == [type |-> "bytes", v |-> b]
DictValue(items) == [type |-> "dict", items |-> items]

RECURSIVE lstrip_null(_)
lstrip_null(chars) ==
    IF chars # <<>> /\ Head(chars) = 0 THEN lstrip_null(Tail(chars)) ELSE chars

RECURSIVE rstrip_null(_)
rstrip_null(chars) ==
    IF chars # <<>> /\ chars[Len(chars)] = 0
    THEN rstrip_null(SubSeq(chars, 1, Len(chars) - 1))
    ELSE chars

\* chars.strip('\x00'): null characters are taken off both ends.
strip_null(chars) == rstrip_null(lstrip_null(chars))

\* b.decode('ascii').strip('\x00')
decode_name(b) ==
    IF IsAscii(b) THEN Str(strip_null(b)) ELSE Raised("UnicodeDecodeError")

\* int(data[i])
int_at(data, i) ==
    IF InRange(data, i) THEN IntValue(data[i + 1]) ELSE Raised("IndexError")

\* The value parse_eeprom_data computes for one key, or what it raises.
eeprom_entry(key, data) ==
    LET addr == EEPROM_STRUCT[key]
    IN  IF key = "firmware_name" THEN decode_name(PySlice(data, addr, addr + 12))
        ELSE IF key = "tune" THEN ListValue(PySlice(data, addr, addr + 128))
        ELSE IF key = "can_reserved" THEN BytesValue(PySlice(data, addr, addr + 8))
        ELSE int_at(data, addr)

\* parse_eeprom_data(data): the dict, or the exception of the first key, in
\* the order of EEPROM_STRUCT, whose value raises.
parse_eeprom_data(data) ==
    LET entries == [i \in 1..Len(EEPROM_KEYS) |-> eeprom_entry(EEPROM_KEYS[i], data)]
        failing == {i \in 1..Len(EEPROM_KEYS) : entries[i].type = "raise"}
    IN  IF failing = {}
        THEN DictValue([k \in DOMAIN EEPROM_STRUCT |-> eeprom_entry(k, data)])
        ELSE entries[CHOOSE i \in failing : \A j \in failing : i <= j]

get_param_byte_len(key) ==
    IF key = "firmware_name" THEN 12
    ELSE IF key = "tune" THEN 128
    ELSE IF key = "can_reserved" THEN 8
    ELSE 1

\* parse_eeprom_params(key, data)
parse_eeprom_params(key, data) ==
    IF key = "firmware_name" THEN decode_name(data)
    ELSE IF key = "tune" THEN ListValue(data)
    ELSE IF key = "can_reserved" THEN BytesValue(data)
    ELSE int_at(data, 0)

(* The EEPROM parsers applied to one block *)

\* The 12 bytes of a firmware_name field: at most MaxName bytes over
\* NameBytes (null, 'A', 'M' and a byte that is not ASCII), then nulls.
NameBytes == {0, 65, 77, 255}
NameFields ==
    {[i \in 1..12 |-> IF i <= Len(p) THEN p[i] ELSE 0] :
        p \in UNION {[1..n -> NameBytes] : n \in 0..MaxName}}

\* A block of n bytes with the name field at offsets 5..16.
BlockWith(name, n) ==
    [i \in 1..n |-> IF i - 1 \in 5..16 THEN name[i - 5] ELSE (i * 7) % 256]

\* Blocks as long as the EEPROM (192 bytes), as long as the bytes
\* EEPROM_LENGTH asks for, and shorter ones.
EepromBlocks == {BlockWith(name, n) : name \in NameFields, n \in {4, 12, 184, 192}}

\* The keys parse_eeprom_params is asked about.
ParamKeys == {"firmware_name", "tune", "can_reserved", "motor_kv"}

InitEe ==
    /\ IdleCall /\ IdleCodec /\ IdleCrc /\ IdleMsp /\ IdleSes /\ IdleRd /\ IdleIo
    /\ ee_stage = "block"
    /\ ee_block \in EepromBlocks
    /\ ee_dict = Pending
    /\ ee_key = ""
    /\ ee_param = Pending

\* parse_eeprom_data(ee_block) is called.
ParseData ==
    /\ ee_stage = "block"
    /\ ee_dict = Pending
    /\ ee_dict' = parse_eeprom_data(ee_block)
    /\ UNCHANGED <<ee_stage, ee_block, ee_key, ee_param>>
    /\ UNCHANGED otherThanEe

\* parse_eeprom_params(key, bytes) is called with the bytes of the field of
\* key in ee_block.
ParseParams ==
    /\ ee_stage = "block"
    /\ ee_param = Pending
    /\ \E key \in ParamKeys :
          /\ ee_key' = key
          /\ ee_param' =
                parse_eeprom_params(key,
                    PySlice(ee_block, EEPROM_STRUCT[key],
                            EEPROM_STRUCT[key] + get_param_byte_len(key)))
    /\ UNCHANGED <<ee_stage, ee_block, ee_dict>>
    /\ UNCHANGED otherThanEe

NextEe == ParseData \/ ParseParams

SpecEe == InitEe /\ [][NextEe]_vars

(* Properties of the EEPROM parsers *)

\* The name of the specification for a block: the ASCII decoding of the
\* bytes at offsets 5..16, null bytes taken off its right end only.
NameOf(block) == Str(rstrip_null(PySlice(block, 5, 17)))

\* C16: for a block that holds all the fields and an ASCII name,
\* parse_eeprom_data and parse_eeprom_params give as firmware_name the
\* decoding of the 12 bytes at offsets 5..16 without its trailing null
\* bytes, leading and interior bytes kept.
C16_NameKeepsLeadingNulls ==
    (Len(ee_block) >= 184 /\ IsAscii(PySlice(ee_block, 5, 17)))
        => /\ ee_dict # Pending
                => /\ ee_dict.type = "dict"
                   /\ ee_dict.items["firmware_name"] = NameOf(ee_block)
           /\ (ee_param # Pending /\ ee_key = "firmware_name")
                => ee_param = NameOf(ee_block)

(* read_eeprom_params_from_device *)

FalseValue == [type |-> "bool", v |-> FALSE]
NoResponseLine == [line |-> "No response for cmd_DeviceRead at address", at |-> EEPROM_OFFSET]

\* The retries send_four_way_command takes when none is passed.
DEFAULT_RETRIES == 3

\* `for esc_index in range(...)` with one pass too many.
esc_range_has_next_off_by_one(i, n) == i <= n

\* `for esc_index in range(self.get_motor_count())`: a pass follows when
\* esc_index < motor_count.
esc_range_has_next(i, n) == i < n

\* What ser.read may return after the cmd_DeviceRead request: nothing, an
\* answer with ack OK carrying 184 bytes of EEPROM (two different blocks),
\* an answer carrying an error ack, and an answer with ack OK carrying
\* 2 bytes.
EepromReads ==
    { <<>>,
      ResponseFrame(cmd_DeviceRead, EEPROM_OFFSET,
                    BlockWith(<<65, 77, 51, 50, 0, 0, 0, 0, 0, 0, 0, 0>>,
                              EEPROM_LENGTH), ACK_OK),
      ResponseFrame(cmd_DeviceRead, EEPROM_OFFSET,
                    BlockWith(<<0, 0, 0, 0, 0, 0, 0, 0, 0, 0, 0, 0>>,
                              EEPROM_LENGTH), ACK_OK),
      ResponseFrame(cmd_DeviceRead, EEPROM_OFFSET, <<0>>, ACK_D_GENERAL_ERROR),
      ResponseFrame(cmd_DeviceRead, EEPROM_OFFSET, <<1, 2>>, ACK_OK) }

\* A session whose fc_response holds no motor count, or one of 0..MaxMotors.
InitRd ==
    /\ IdleCall /\ IdleCodec /\ IdleCrc /\ IdleMsp /\ IdleEe /\ IdleIo
    /\ ses_op = "new" /\ fc_before = EmptyFc /\ ses_arg = NoneValue
    /\ ses_ret = Pending
    /\ fc_response \in
          {EmptyFc} \cup {[EmptyFc EXCEPT !["motor_count"] = IntValue(n)] :
                             n \in 0..MaxMotors}
    /\ rd_pc = "start"
    /\ esc_index = 0
    /\ targets = <<>>
    /\ eeprom_params = <<>>
    /\ rd_log = <<>>
    /\ rd_result = Pending

\* The first loop: an empty dict and one EEPROM_LENGTH per index.  The dict
\* is kept as a sequence: entry i + 1 is eeprom_params[i].
RdEnter ==
    /\ rd_pc = "start"
    /\ LET n == get_motor_count(fc_response)
       IN  /\ eeprom_params' = [i \in 1..n |-> DictValue(<<>>)]
           /\ targets' = [i \in 1..n |-> EEPROM_LENGTH]
    /\ esc_index' = 0
    /\ rd_pc' = "loop"
    /\ UNCHANGED <<rd_log, rd_result>>
    /\ UNCHANGED <<callVars, otherThanRd>>

\* A pass of the second loop calls send_four_way_command(cmd_DeviceRead,
\* targets, EEPROM_OFFSET).
RdCall ==
    /\ rd_pc = "loop"
    /\ esc_range_has_next(esc_index, get_motor_count(fc_response))
    /\ Enter(cmd_DeviceRead, EEPROM_OFFSET, targets, DEFAULT_RETRIES)
    /\ rd_log' = Append(rd_log, [index |-> esc_index, outcome |-> "running"])
    /\ rd_pc' = "calling"
    /\ UNCHANGED <<esc_index, targets, eeprom_params, rd_result>>
    /\ UNCHANGED otherThanRd

\* The passes of send_four_way_command inside that call.  targets has at
\* most 255 entries, so the pass that finds more than 256 never runs here.
RdAttempt ==
    /\ rd_pc = "calling"
    /\ Exchange(EepromReads)
    /\ UNCHANGED <<rdVars, otherThanRd>>

RdExhausted ==
    /\ rd_pc = "calling"
    /\ GiveUp
    /\ UNCHANGED <<rdVars, otherThanRd>>

\* send_four_way_command has returned: `if not response` prints and returns
\* False, otherwise parse_eeprom_data(response['params']) is stored under
\* esc_index, or its exception leaves the function.
RdReturn ==
    /\ rd_pc = "calling"
    /\ pc = "done"
    /\ pc' = "idle"
    /\ IF result = NoneValue
       THEN /\ stdout' = Append(stdout, NoResponseLine)
            /\ rd_result' = FalseValue
            /\ rd_log' = [rd_log EXCEPT ![Len(rd_log)].outcome = "failed"]
            /\ rd_pc' = "done"
            /\ UNCHANGED <<esc_index, eeprom_params>>
       ELSE LET record == parse_eeprom_data(result.params)
            IN  /\ rd_log' = [rd_log EXCEPT ![Len(rd_log)].outcome = "ok"]
                /\ UNCHANGED stdout
                /\ IF record.type = "raise"
                   THEN /\ rd_result' = record
                        /\ rd_pc' = "done"
                        /\ UNCHANGED <<esc_index, eeprom_params>>
                   ELSE /\ eeprom_params' =
                              [eeprom_params EXCEPT ![esc_index + 1] = record]
                        /\ esc_index' = esc_index + 1
                        /\ rd_pc' = "loop"
                        /\ UNCHANGED rd_result
    /\ UNCHANGED <<command, address, params, passed, retries, attempt, written,
                   reads, result, targets>>
    /\ UNCHANGED otherThanRd

\* The second loop is over: return eeprom_params.
RdFinish ==
    /\ rd_pc = "loop"
    /\ ~esc_range_has_next(esc_index, get_motor_count(fc_response))
    /\ rd_result' = DictValue(eeprom_params)
    /\ rd_pc' = "done"
    /\ UNCHANGED <<esc_index, targets, eeprom_params, rd_log>>
    /\ UNCHANGED <<callVars, otherThanRd>>

NextRd == RdEnter \/ RdCall \/ RdAttempt \/ RdExhausted \/ RdReturn \/ RdFinish

SpecRd == InitRd /\ [][NextRd]_vars

(* Properties of read_eeprom_params_from_device *)

\* C20: the exchanges are those of the indices 0, 1, ... below motor_count,
\* in that order, one each; an exchange starts only when the one before it
\* has returned a frame; after an exchange that returned None the call
\* returns False and starts no other; a dict returned holds one decoded
\* record for each index below motor_count.
C20_OrderedBlockingLoop ==
    /\ \A i \in 1..Len(rd_log) :
          /\ rd_log[i].index = i - 1
          /\ rd_log[i].index < get_motor_count(fc_response)
          /\ i < Len(rd_log) => rd_log[i].outcome = "ok"
    /\ (rd_log # <<>> /\ rd_log[Len(rd_log)].outcome = "failed")
          => rd_result = FalseValue /\ rd_pc = "done"
    /\ rd_result = FalseValue
          => rd_log # <<>> /\ rd_log[Len(rd_log)].outcome = "failed"
    /\ (rd_result # Pending /\ rd_result.type = "dict")
          => /\ Len(rd_result.items) = get_motor_count(fc_response)
             /\ Len(rd_log) = get_motor_count(fc_response)
             /\ \A i \in 1..Len(rd_result.items) :
                   /\ rd_result.items[i].type = "dict"
                   /\ DOMAIN rd_result.items[i].items = DOMAIN EEPROM_STRUCT
                   /\ rd_log[i].outcome = "ok"

\* With two motors, both exchanges returned a frame and the dict returned
\* holds the two names.
C20_Witness ==
    /\ get_motor_count(fc_response) = 2
    /\ rd_result # Pending /\ rd_result.type = "dict"
    /\ rd_result.items[1].items["firmware_name"] = Str(<<65, 77, 51, 50>>)
    /\ rd_result.items[2].items["firmware_name"] = Str(<<>>)

(* The transport under send_msp_command and send_four_way_command *)

\* A call of ser.write or ser.read, and the function that made it.
WriteBy(f) == [op |-> "write", by |-> f]
ReadBy(f) == [op |-> "read", by |-> f]

\* After a read that did not decode to ack OK, the read is made again.
after_read_reads_again(ok) == IF ok THEN "idle" ELSE "fw_written"

\* After the read of send_four_way_command: return the frame decoded with
\* ack OK, or go on to the next pass of the loop.
after_read(ok) == IF ok THEN "idle" ELSE "fw_loop"

InitIo ==
    /\ IdleCall /\ IdleCodec /\ IdleCrc /\ IdleMsp /\ IdleSes /\ IdleEe /\ IdleRd
    /\ io_pc = "idle"
    /\ io_log = <<>>
    /\ io_attempt = 0
    /\ io_retries = 0
    /\ io_params = "some"

\* send_msp_command: self.ser.write(command)
IoMspWrite ==
    /\ io_pc = "idle"
    /\ Len(io_log) < MaxEvents
    /\ io_log' = Append(io_log, WriteBy("send_msp_command"))
    /\ io_pc' = "msp_written"
    /\ UNCHANGED <<io_attempt, io_retries, io_params>>
    /\ UNCHANGED otherThanIo

\* send_msp_command: the sleep, self.ser.read(...), return response.
IoMspRead ==
    /\ io_pc = "msp_written"
    /\ io_log' = Append(io_log, ReadBy("send_msp_command"))
    /\ io_pc' = "idle"
    /\ UNCHANGED <<io_attempt, io_retries, io_params>>
    /\ UNCHANGED otherThanIo

\* send_four_way_command is entered with some retries and some number of
\* parameters.
IoFourWayCall ==
    /\ io_pc = "idle"
    /\ Len(io_log) < MaxEvents
    /\ io_retries' \in 0..MaxRetries
    /\ io_params' \in {"empty", "some", "too_many"}
    /\ io_attempt' = 0
    /\ io_pc' = "fw_loop"
    /\ UNCHANGED io_log
    /\ UNCHANGED otherThanIo

\* A pass that finds more than 256 parameters returns None.
IoFourWayTooMany ==
    /\ io_pc = "fw_loop"
    /\ range_has_next(io_attempt, io_retries)
    /\ io_params = "too_many"
    /\ io_pc' = "idle"
    /\ UNCHANGED <<io_log, io_attempt, io_retries, io_params>>
    /\ UNCHANGED otherThanIo

\* A pass builds the frame and calls self.ser.write(buffer_out); an empty
\* params has become [0].
IoFourWayWrite ==
    /\ io_pc = "fw_loop"
    /\ range_has_next(io_attempt, io_retries)
    /\ io_params # "too_many"
    /\ Len(io_log) < MaxEvents
    /\ io_log' = Append(io_log, WriteBy("send_four_way_command"))
    /\ io_params' = "some"
    /\ io_pc' = "fw_written"
    /\ UNCHANGED <<io_attempt, io_retries>>
    /\ UNCHANGED otherThanIo

\* The sleep, self.ser.read(...), and the decoding of what was read, to ack
\* OK or not.
IoFourWayRead ==
    /\ io_pc = "fw_written"
    /\ io_log' = Append(io_log, ReadBy("send_four_way_command"))
    /\ \E ok \in BOOLEAN :
          /\ io_pc' = after_read(ok)
          /\ io_attempt' = IF ok THEN io_attempt ELSE io_attempt + 1
    /\ UNCHANGED <<io_retries, io_params>>
    /\ UNCHANGED otherThanIo

\* The loop is over: return None.
IoFourWayExhausted ==
    /\ io_pc = "fw_loop"
    /\ ~range_has_next(io_attempt, io_retries)
    /\ io_pc' = "idle"
    /\ UNCHANGED <<io_log, io_attempt, io_retries, io_params>>
    /\ UNCHANGED otherThanIo

NextIo ==
    \/ IoMspWrite \/ IoMspRead
    \/ IoFourWayCall \/ IoFourWayTooMany \/ IoFourWayWrite \/ IoFourWayRead
    \/ IoFourWayExhausted

SpecIo == InitIo /\ [][NextIo]_vars

(* Properties of the transport *)

\* The requests written and not yet followed by a read.
InFlight ==
    Cardinality({i \in 1..Len(io_log) : io_log[i].op = "write"})
       - Cardinality({i \in 1..Len(io_log) : io_log[i].op = "read"})

\* C19: the calls of the transport are a write, a read, a write, a read and
\* so on, each read made by the function that made the write before it, so
\* at most one request is in flight.
C19_WritesAndReadsAlternate ==
    /\ \A i \in 1..Len(io_log) :
          /\ io_log[i].op = IF i % 2 = 1 THEN "write" ELSE "read"
          /\ i % 2 = 0 => io_log[i].by = io_log[i - 1].by
    /\ InFlight \in {0, 1}
    /\ io_pc \in {"idle", "fw_loop"} => InFlight = 0

\* An MSP exchange, then a four-way call whose first attempt failed and
\* whose second request is in flight.
C19_Witness ==
    /\ Len(io_log) = 5
    /\ io_log[1].by = "send_msp_command"
    /\ io_log[3].by = "send_four_way_command"
    /\ io_attempt = 1
    /\ io_pc = "fw_written"

(* The frame send_four_way_command returns and the request it sent *)

\* C21: a frame returned by send_four_way_command was read as bytes that
\* start with the sentinel 0x2F, and its command and address are those of
\* the request written in the same attempt.
C21_ReturnedFrameAnswersRequest ==
    (pc = "done" /\ result # NoneValue)
        => LET request == written[Len(written)]
               response == reads[Len(reads)]
           IN  /\ response[1] = FOUR_WAY_SENTINEL
               /\ result.command = request[2]
               /\ result.address = request[3] * 256 + request[4]
               /\ result.command = command
               /\ result.address = address

====
